---- MODULE Spec2Model ----
(***************************************************************************)
(* Model of claude_client.py: a command-line script that forwards one      *)
(* prompt to the completion service and prints the first content segment.  *)
(* Two independent invocations of the script (Runs) are modelled side by   *)
(* side so that properties comparing two runs can be stated.               *)
(***************************************************************************)
EXTENDS Integers, Sequences, FiniteSets, TLC

\* ------------------------------------------------------------------ bounds
MaxSegs == 2          \* longest response content list the service returns

\* ------------------------------------------------------------ input domains
Runs == {1, 2}
Prog == "claude_client.py"
Prompts == {"", "write a haiku"}
Texts == {"lines of code at rest", "second segment"}
Keys == {"sk-one", "sk-two"}
TransportErrors == {"APIConnectionError", "APIStatusError"}

\* Python values: None and str
PyNone == [none |-> TRUE]
PyStr(s) == [str |-> s]
IsNone(v) == "none" \in DOMAIN v
\* variant: "if api_key is None" in place of "if not api_key"
TruthyIsNotNone(v) == ~IsNone(v)

\* truthiness of an Optional[str]: None and "" are falsy
Truthy(v) == IF IsNone(v) THEN FALSE ELSE v.str # ""

\* the process environment, restricted to ANTHROPIC_API_KEY
Environs == {PyNone} \cup {PyStr(k) : k \in Keys \cup {""}}

RECURSIVE SeqsUpTo(_, _)
SeqsUpTo(S, n) ==
    IF n = 0 THEN {<<>>}
    ELSE LET shorter == SeqsUpTo(S, n - 1)
         IN shorter \cup {Append(s, x) : s \in {t \in shorter : Len(t) = n - 1}, x \in S}

\* sys.argv: the program name, then the arguments (any after the first are ignored)
Argvs == {<<Prog>>} \cup {<<Prog, p>> : p \in Prompts} \cup {<<Prog, "write a haiku", "--ignored">>}

\* content segments of a response: text blocks carry .text, others do not
Segments == {[type |-> "text", text |-> t] : t \in Texts} \cup {[type |-> "tool_use"]}
Responses == SeqsUpTo(Segments, MaxSegs)

NoOutcome == [kind |-> "none"]
NoExc == [type |-> "none"]
NoStatus == -1

UsageMsg == "Usage: claude_client.py <prompt>"
KeyErrMsg == "ANTHROPIC_API_KEY not set"

VARIABLES
    argv,        \* sys.argv of each run
    environ,     \* value of ANTHROPIC_API_KEY in os.environ of each run
    pc,          \* position of each run in the script
    prompt,      \* local of __main__
    api_key,     \* local of generate_code
    envReads,    \* number of os.environ.get calls made
    calls,       \* number of client.messages.create calls made
    clients,     \* number of anthropic.Anthropic objects constructed
    outcome,     \* what the service did with the call
    code,        \* value returned by generate_code
    raised,      \* exception propagating out of the script
    stdout,      \* chunks written to sys.stdout
    stderr,      \* chunks written to sys.stderr
    exitStatus   \* process exit status, NoStatus while running

vars == <<argv, environ, pc, prompt, api_key, envReads, calls, clients,
          outcome, code, raised, stdout, stderr, exitStatus>>

\* print(x): writes str(x), then the line end, to sys.stdout
PyPrint(out, s) == out \o <<s, "\n">>

\* the interpreter's report of an uncaught exception on sys.stderr
Traceback(exc) == <<"Traceback (most recent call last):", exc.type, exc.msg, "\n">>

Init ==
    /\ argv \in [Runs -> Argvs]
    /\ environ \in [Runs -> Environs]
    /\ pc = [r \in Runs |-> "main"]
    /\ prompt = [r \in Runs |-> PyNone]
    /\ api_key = [r \in Runs |-> PyNone]
    /\ envReads = [r \in Runs |-> 0]
    /\ calls = [r \in Runs |-> 0]
    /\ clients = [r \in Runs |-> 0]
    /\ outcome = [r \in Runs |-> NoOutcome]
    /\ code = [r \in Runs |-> PyNone]
    /\ raised = [r \in Runs |-> NoExc]
    /\ stdout = [r \in Runs |-> <<>>]
    /\ stderr = [r \in Runs |-> <<>>]
    /\ exitStatus = [r \in Runs |-> NoStatus]

\* variant: the usage branch ends with sys.exit(0)
MainUsageExitZero(r) ==
    /\ pc[r] = "main"
    /\ Len(argv[r]) < 2
    /\ stdout' = [stdout EXCEPT ![r] = PyPrint(@, UsageMsg)]
    /\ exitStatus' = [exitStatus EXCEPT ![r] = 0]
    /\ pc' = [pc EXCEPT ![r] = "exited"]
    /\ UNCHANGED <<argv, environ, prompt, api_key, envReads, calls, clients,
                   outcome, code, raised, stderr>>

\* variant: the credential is looked up and checked before the argument count
MainUsageKeyFirst(r) ==
    /\ pc[r] = "main"
    /\ Len(argv[r]) < 2
    /\ envReads' = [envReads EXCEPT ![r] = @ + 1]
    /\ api_key' = [api_key EXCEPT ![r] = environ[r]]
    /\ IF Truthy(environ[r])
       THEN /\ stdout' = [stdout EXCEPT ![r] = PyPrint(@, UsageMsg)]
            /\ exitStatus' = [exitStatus EXCEPT ![r] = 1]
            /\ pc' = [pc EXCEPT ![r] = "exited"]
            /\ UNCHANGED raised
       ELSE /\ raised' = [raised EXCEPT ![r] = [type |-> "ValueError", msg |-> KeyErrMsg]]
            /\ pc' = [pc EXCEPT ![r] = "uncaught"]
            /\ UNCHANGED <<stdout, exitStatus>>
    /\ UNCHANGED <<argv, environ, prompt, calls, clients, outcome, code, stderr>>

\* __main__, len(sys.argv) < 2: print the usage line and sys.exit(1)
MainUsage(r) ==
    /\ pc[r] = "main"
    /\ Len(argv[r]) < 2
    /\ stdout' = [stdout EXCEPT ![r] = PyPrint(@, UsageMsg)]
    /\ exitStatus' = [exitStatus EXCEPT ![r] = 1]
    /\ pc' = [pc EXCEPT ![r] = "exited"]
    /\ UNCHANGED <<argv, environ, prompt, api_key, envReads, calls, clients,
                   outcome, code, raised, stderr>>

\* __main__, otherwise: prompt = sys.argv[1]; enter generate_code(prompt)
MainCall(r) ==
    /\ pc[r] = "main"
    /\ ~(Len(argv[r]) < 2)
    /\ prompt' = [prompt EXCEPT ![r] = PyStr(argv[r][2])]
    /\ pc' = [pc EXCEPT ![r] = "getenv"]
    /\ UNCHANGED <<argv, environ, api_key, envReads, calls, clients,
                   outcome, code, raised, stdout, stderr, exitStatus>>

\* api_key = os.environ.get("ANTHROPIC_API_KEY")
ReadKey(r) ==
    /\ pc[r] = "getenv"
    /\ api_key' = [api_key EXCEPT ![r] = environ[r]]
    /\ envReads' = [envReads EXCEPT ![r] = @ + 1]
    /\ pc' = [pc EXCEPT ![r] = "checkkey"]
    /\ UNCHANGED <<argv, environ, prompt, calls, clients,
                   outcome, code, raised, stdout, stderr, exitStatus>>

\* if not api_key: raise ValueError("ANTHROPIC_API_KEY not set")
KeyMissing(r) ==
    /\ pc[r] = "checkkey"
    /\ ~Truthy(api_key[r])
    /\ raised' = [raised EXCEPT ![r] = [type |-> "ValueError", msg |-> KeyErrMsg]]
    /\ pc' = [pc EXCEPT ![r] = "uncaught"]
    /\ UNCHANGED <<argv, environ, prompt, api_key, envReads, calls, clients,
                   outcome, code, stdout, stderr, exitStatus>>

\* client = anthropic.Anthropic(api_key=api_key)
MakeClient(r) ==
    /\ pc[r] = "checkkey"
    /\ Truthy(api_key[r])
    /\ clients' = [clients EXCEPT ![r] = @ + 1]
    /\ pc' = [pc EXCEPT ![r] = "create"]
    /\ UNCHANGED <<argv, environ, prompt, api_key, envReads, calls,
                   outcome, code, raised, stdout, stderr, exitStatus>>

\* client.messages.create(...): the request is issued and the script blocks
CreateMessage(r) ==
    /\ pc[r] = "create"
    /\ calls' = [calls EXCEPT ![r] = @ + 1]
    /\ pc' = [pc EXCEPT ![r] = "waiting"]
    /\ UNCHANGED <<argv, environ, prompt, api_key, envReads, clients,
                   outcome, code, raised, stdout, stderr, exitStatus>>

\* the call returns a message with some list of content segments
ServiceRespond(r) ==
    /\ pc[r] = "waiting"
    /\ \E content \in Responses :
          outcome' = [outcome EXCEPT ![r] = [kind |-> "response", content |-> content]]
    /\ pc' = [pc EXCEPT ![r] = "extract"]
    /\ UNCHANGED <<argv, environ, prompt, api_key, envReads, calls, clients,
                   code, raised, stdout, stderr, exitStatus>>

\* variant: a failed call is caught and the request is issued once more
ServiceFailRetry(r) ==
    /\ pc[r] = "waiting"
    /\ \E e \in TransportErrors :
          /\ outcome' = [outcome EXCEPT ![r] = [kind |-> "error", err |-> e]]
          /\ IF calls[r] < 2
             THEN /\ pc' = [pc EXCEPT ![r] = "create"]
                  /\ UNCHANGED raised
             ELSE /\ raised' = [raised EXCEPT ![r] = [type |-> e, msg |-> "service failure"]]
                  /\ pc' = [pc EXCEPT ![r] = "uncaught"]
    /\ UNCHANGED <<argv, environ, prompt, api_key, envReads, calls, clients,
                   code, stdout, stderr, exitStatus>>

\* the call raises: nothing in generate_code or __main__ catches it
ServiceFail(r) ==
    /\ pc[r] = "waiting"
    /\ \E e \in TransportErrors :
          /\ outcome' = [outcome EXCEPT ![r] = [kind |-> "error", err |-> e]]
          /\ raised' = [raised EXCEPT ![r] = [type |-> e, msg |-> "service failure"]]
    /\ pc' = [pc EXCEPT ![r] = "uncaught"]
    /\ UNCHANGED <<argv, environ, prompt, api_key, envReads, calls, clients,
                   code, stdout, stderr, exitStatus>>

\* variant: message.content[-1].text, the last segment instead of the first
ExtractLast(r) ==
    /\ pc[r] = "extract"
    /\ LET content == outcome[r].content IN
         IF Len(content) = 0
         THEN /\ raised' = [raised EXCEPT ![r] =
                               [type |-> "IndexError", msg |-> "list index out of range"]]
              /\ pc' = [pc EXCEPT ![r] = "uncaught"]
              /\ UNCHANGED code
         ELSE IF content[Len(content)].type # "text"
         THEN /\ raised' = [raised EXCEPT ![r] =
                               [type |-> "AttributeError", msg |-> "no attribute 'text'"]]
              /\ pc' = [pc EXCEPT ![r] = "uncaught"]
              /\ UNCHANGED code
         ELSE /\ code' = [code EXCEPT ![r] = PyStr(content[Len(content)].text)]
              /\ pc' = [pc EXCEPT ![r] = "print"]
              /\ UNCHANGED raised
    /\ UNCHANGED <<argv, environ, prompt, api_key, envReads, calls, clients,
                   outcome, stdout, stderr, exitStatus>>

\* variant: an empty content list makes the script wait for another response
ExtractPollAgain(r) ==
    /\ pc[r] = "extract"
    /\ LET content == outcome[r].content IN
         IF Len(content) = 0
         THEN /\ pc' = [pc EXCEPT ![r] = "waiting"]
              /\ UNCHANGED <<code, raised>>
         ELSE IF content[1].type # "text"
         THEN /\ raised' = [raised EXCEPT ![r] =
                               [type |-> "AttributeError", msg |-> "no attribute 'text'"]]
              /\ pc' = [pc EXCEPT ![r] = "uncaught"]
              /\ UNCHANGED code
         ELSE /\ code' = [code EXCEPT ![r] = PyStr(content[1].text)]
              /\ pc' = [pc EXCEPT ![r] = "print"]
              /\ UNCHANGED raised
    /\ UNCHANGED <<argv, environ, prompt, api_key, envReads, calls, clients,
                   outcome, stdout, stderr, exitStatus>>

\* return message.content[0].text
\*   content == []            -> IndexError from the subscript
\*   content[0] has no .text  -> AttributeError
Extract(r) ==
    /\ pc[r] = "extract"
    /\ LET content == outcome[r].content IN
         IF Len(content) = 0
         THEN /\ raised' = [raised EXCEPT ![r] =
                               [type |-> "IndexError", msg |-> "list index out of range"]]
              /\ pc' = [pc EXCEPT ![r] = "uncaught"]
              /\ UNCHANGED code
         ELSE IF content[1].type # "text"
         THEN /\ raised' = [raised EXCEPT ![r] =
                               [type |-> "AttributeError", msg |-> "no attribute 'text'"]]
              /\ pc' = [pc EXCEPT ![r] = "uncaught"]
              /\ UNCHANGED code
         ELSE /\ code' = [code EXCEPT ![r] = PyStr(content[1].text)]
              /\ pc' = [pc EXCEPT ![r] = "print"]
              /\ UNCHANGED raised
    /\ UNCHANGED <<argv, environ, prompt, api_key, envReads, calls, clients,
                   outcome, stdout, stderr, exitStatus>>

\* variant: a debugging print of the credential precedes the result
PrintCodeAndKey(r) ==
    /\ pc[r] = "print"
    /\ stdout' = [stdout EXCEPT ![r] = PyPrint(PyPrint(@, api_key[r].str), code[r].str)]
    /\ exitStatus' = [exitStatus EXCEPT ![r] = 0]
    /\ pc' = [pc EXCEPT ![r] = "exited"]
    /\ UNCHANGED <<argv, environ, prompt, api_key, envReads, calls, clients,
                   outcome, code, raised, stderr>>

\* print(code), then the script ends: exit status 0
PrintCode(r) ==
    /\ pc[r] = "print"
    /\ stdout' = [stdout EXCEPT ![r] = PyPrint(@, code[r].str)]
    /\ exitStatus' = [exitStatus EXCEPT ![r] = 0]
    /\ pc' = [pc EXCEPT ![r] = "exited"]
    /\ UNCHANGED <<argv, environ, prompt, api_key, envReads, calls, clients,
                   outcome, code, raised, stderr>>

\* variant: the exception is caught at top level, reported, and the script
\* then ends normally
UncaughtExitZero(r) ==
    /\ pc[r] = "uncaught"
    /\ stderr' = [stderr EXCEPT ![r] = @ \o Traceback(raised[r])]
    /\ exitStatus' = [exitStatus EXCEPT ![r] = 0]
    /\ pc' = [pc EXCEPT ![r] = "exited"]
    /\ UNCHANGED <<argv, environ, prompt, api_key, envReads, calls, clients,
                   outcome, code, raised, stdout>>

\* an exception leaves __main__: traceback on stderr, exit status 1
Uncaught(r) ==
    /\ pc[r] = "uncaught"
    /\ stderr' = [stderr EXCEPT ![r] = @ \o Traceback(raised[r])]
    /\ exitStatus' = [exitStatus EXCEPT ![r] = 1]
    /\ pc' = [pc EXCEPT ![r] = "exited"]
    /\ UNCHANGED <<argv, environ, prompt, api_key, envReads, calls, clients,
                   outcome, code, raised, stdout>>

\* the steps the interpreter takes on its own
ProgStep(r) ==
    \/ MainUsage(r)
    \/ MainCall(r)
    \/ ReadKey(r)
    \/ KeyMissing(r)
    \/ MakeClient(r)
    \/ CreateMessage(r)
    \/ Extract(r)
    \/ PrintCode(r)
    \/ Uncaught(r)

\* the steps that end the blocking call: taken by the service or the transport
ServiceStep(r) ==
    \/ ServiceRespond(r)
    \/ ServiceFail(r)

Next == \E r \in Runs : ProgStep(r) \/ ServiceStep(r)

Spec == Init /\ [][Next]_vars

\* the interpreter keeps executing; nothing is assumed about the service
FairSpec == Spec /\ \A r \in Runs : WF_vars(ProgStep(r))

\* ---------------------------------------------------------------- helpers
Range(s) == {s[i] : i \in 1..Len(s)}
Done(r) == pc[r] = "exited"
HasPrompt(r) == Len(argv[r]) >= 2
Responded(r) == outcome[r].kind = "response"
Failed(r) == outcome[r].kind = "error"
FirstIsText(r) ==
    /\ Responded(r)
    /\ Len(outcome[r].content) > 0
    /\ outcome[r].content[1].type = "text"

\* ------------------------------------------------------------------ claims

\* C1: a run started with no prompt argument never calls the completion
\* service, whatever ANTHROPIC_API_KEY holds, and when it has exited it has
\* written the usage message and its exit status is 1.
C1_UsageNoCall ==
    \A r \in Runs :
        ~HasPrompt(r) =>
            /\ calls[r] = 0
            /\ Done(r) => /\ UsageMsg \in Range(stdout[r]) \cup Range(stderr[r])
                          /\ exitStatus[r] = 1

\* C1 witness: both a run with a usable credential and a run without one have
\* exited on the usage branch.
C1_Witness ==
    \E r1, r2 \in Runs :
        /\ ~HasPrompt(r1) /\ Done(r1) /\ Truthy(environ[r1])
        /\ ~HasPrompt(r2) /\ Done(r2) /\ IsNone(environ[r2])

\* C2: with a prompt given and ANTHROPIC_API_KEY unset or empty, no client is
\* built and the service is never called; the run ends with the "not set"
\* ValueError and a non-zero exit status; and an unset and an empty credential
\* give the same output, error and exit status for the same command line.
C2_NoCredential ==
    /\ \A r \in Runs :
         (HasPrompt(r) /\ ~Truthy(environ[r])) =>
            /\ calls[r] = 0
            /\ clients[r] = 0
            /\ outcome[r] = NoOutcome
            /\ Done(r) => /\ raised[r] = [type |-> "ValueError", msg |-> KeyErrMsg]
                          /\ exitStatus[r] = 1
                          /\ stdout[r] = <<>>
    /\ \A r1, r2 \in Runs :
         (/\ Done(r1) /\ Done(r2)
          /\ argv[r1] = argv[r2]
          /\ HasPrompt(r1)
          /\ IsNone(environ[r1])
          /\ environ[r2] = PyStr("")) =>
            /\ stdout[r1] = stdout[r2]
            /\ stderr[r1] = stderr[r2]
            /\ exitStatus[r1] = exitStatus[r2]
            /\ raised[r1] = raised[r2]
            /\ calls[r1] = calls[r2]

\* C2 witness: one run with the variable unset and one with it empty, same
\* prompt, both exited.
C2_Witness ==
    \E r1, r2 \in Runs :
        /\ Done(r1) /\ Done(r2)
        /\ argv[r1] = argv[r2] /\ HasPrompt(r1)
        /\ IsNone(environ[r1])
        /\ environ[r2] = PyStr("")

\* C3: for a non-empty prompt, when the service answered with a content list
\* whose first segment is a text segment with text R, the exited run returned
\* exactly R from generate_code, wrote exactly R and one newline to standard
\* output, wrote nothing to standard error, and its exit status is 0.
C3_FirstSegmentPrinted ==
    \A r \in Runs :
        (Done(r) /\ HasPrompt(r) /\ argv[r][2] # "" /\ FirstIsText(r)) =>
            /\ code[r] = PyStr(outcome[r].content[1].text)
            /\ stdout[r] = <<outcome[r].content[1].text, "\n">>
            /\ stderr[r] = <<>>
            /\ exitStatus[r] = 0

\* C3 witness: an exited run whose response had two text segments with
\* different texts.
C3_Witness ==
    \E r \in Runs :
        /\ Done(r) /\ HasPrompt(r) /\ argv[r][2] # "" /\ FirstIsText(r)
        /\ Len(outcome[r].content) = 2
        /\ outcome[r].content[2].type = "text"
        /\ outcome[r].content[2].text # outcome[r].content[1].text

\* C4: when the service answers with zero content segments the run ends with
\* a reported ResponseShapeError, not with an out-of-range access; nothing is
\* written to standard output and the exit status is non-zero.
C4_EmptyResponseReported ==
    \A r \in Runs :
        (Done(r) /\ Responded(r) /\ Len(outcome[r].content) = 0) =>
            /\ raised[r].type = "ResponseShapeError"
            /\ stdout[r] = <<>>
            /\ exitStatus[r] = 1

\* C5: every run that exits with a non-zero status has written nothing to
\* standard output and has written its message to standard error; in
\* particular the usage message goes to standard error.
C5_FailureOnStderrOnly ==
    \A r \in Runs :
        (Done(r) /\ exitStatus[r] # 0) =>
            /\ stdout[r] = <<>>
            /\ stderr[r] # <<>>

\* C6: a run calls the completion service at most once; once the call has
\* failed, exactly one call has been made, the exception that propagates is
\* the one the call raised, nothing is on standard output, and the exited run
\* has reported that exception and has exit status 1.
C6_SingleCallNoRetry ==
    \A r \in Runs :
        /\ calls[r] <= 1
        /\ Failed(r) =>
              /\ calls[r] = 1
              /\ raised[r].type = outcome[r].err
              /\ stdout[r] = <<>>
              /\ Done(r) => /\ exitStatus[r] = 1
                            /\ stderr[r] = Traceback(raised[r])
                            /\ outcome[r].err \in Range(stderr[r])

\* C6 witness: a run whose service call failed has exited.
C6_Witness ==
    \E r \in Runs : Done(r) /\ Failed(r) /\ calls[r] = 1

\* the two outcomes of C7
SuccessOutcome(r) ==
    /\ exitStatus[r] = 0
    /\ calls[r] = 1
    /\ FirstIsText(r)
    /\ stdout[r] = <<outcome[r].content[1].text, "\n">>
    /\ stderr[r] = <<>>

FailureOutcome(r) ==
    /\ exitStatus[r] \notin {0, NoStatus}
    /\ \/ stderr[r] # <<>>
       \/ UsageMsg \in Range(stdout[r])
    /\ code[r] = PyNone
    /\ Range(stdout[r]) \cap Texts = {}

\* C7: an exited run is in exactly one of two outcomes: exit status 0 after
\* one successful service call with the completion text on standard output,
\* or a non-zero exit status with a diagnostic message written and no
\* completion text on standard output.
C7_TwoOutcomes ==
    \A r \in Runs :
        Done(r) => /\ SuccessOutcome(r) \/ FailureOutcome(r)
                   /\ ~(SuccessOutcome(r) /\ FailureOutcome(r))

\* C7 witness: one exited run in each outcome.
C7_Witness ==
    \E r1, r2 \in Runs :
        /\ Done(r1) /\ SuccessOutcome(r1)
        /\ Done(r2) /\ FailureOutcome(r2) /\ calls[r2] = 1

\* C8: the credential value is never written to standard output or standard
\* error, and two exited runs with the same command line, credentials that
\* are both non-empty (or both unusable) and the same service outcome have
\* identical standard output, standard error and exit status.
C8_CredentialNotLogged ==
    /\ \A r \in Runs : \A k \in Keys :
          k \notin Range(stdout[r]) \cup Range(stderr[r])
    /\ \A r1, r2 \in Runs :
         (/\ Done(r1) /\ Done(r2)
          /\ argv[r1] = argv[r2]
          /\ Truthy(environ[r1]) = Truthy(environ[r2])
          /\ outcome[r1] = outcome[r2]) =>
            /\ stdout[r1] = stdout[r2]
            /\ stderr[r1] = stderr[r2]
            /\ exitStatus[r1] = exitStatus[r2]

\* C8 witness: two exited runs that differ only in the non-empty credential
\* value and received the same response.
C8_Witness ==
    \E r1, r2 \in Runs :
        /\ Done(r1) /\ Done(r2)
        /\ argv[r1] = argv[r2]
        /\ Truthy(environ[r1]) /\ Truthy(environ[r2])
        /\ environ[r1] # environ[r2]
        /\ outcome[r1] = outcome[r2]
        /\ FirstIsText(r1)

\* C9: the argument check precedes the credential lookup, which precedes
\* building the client, which precedes the service call: the environment is
\* read at most once and only by a run that has a prompt; a client exists
\* only after a read that gave a non-empty credential; a call is made only
\* with a client; and a run with no prompt never reads the environment,
\* never raises, and exits with status 1.
C9_CheckOrder ==
    \A r \in Runs :
        /\ envReads[r] <= 1
        /\ envReads[r] > 0 => HasPrompt(r) /\ prompt[r] = PyStr(argv[r][2])
        /\ clients[r] > 0 => envReads[r] = 1 /\ Truthy(api_key[r])
        /\ calls[r] > 0 => clients[r] = 1
        /\ ~HasPrompt(r) =>
              /\ envReads[r] = 0
              /\ raised[r] = NoExc
              /\ Done(r) => exitStatus[r] = 1

\* C9 witness: a run with neither prompt nor credential has exited, and a
\* run that reached the service call has read the environment.
C9_Witness ==
    \E r1, r2 \in Runs :
        /\ ~HasPrompt(r1) /\ IsNone(environ[r1]) /\ Done(r1)
        /\ calls[r2] = 1 /\ envReads[r2] = 1

\* C10: every run eventually exits provided its service call does not block
\* for ever; a run with no prompt or no usable credential exits without that
\* proviso; and once the call has returned or raised the run exits.
C10_Terminates ==
    \A r \in Runs :
        /\ ([]<>(pc[r] # "waiting")) => <>Done(r)
        /\ (~HasPrompt(r) \/ ~Truthy(environ[r])) => <>Done(r)
        /\ (pc[r] \in {"extract", "uncaught", "print"}) ~> Done(r)

\* C10 witness: a run that waited on the service and got an empty content
\* list has exited.
C10_Witness ==
    \E r \in Runs :
        /\ Done(r) /\ Responded(r) /\ Len(outcome[r].content) = 0

TypeOK ==
    /\ \A r \in Runs : pc[r] \in {"main", "getenv", "checkkey", "create", "waiting",
                                  "extract", "print", "uncaught", "exited"}
    /\ \A r \in Runs : exitStatus[r] \in {NoStatus, 0, 1}
====
